---- MODULE Spec2Model ----
(***************************************************************************)
(* Document outline of the pushtak writing tool.                           *)
(*                                                                         *)
(* DocumentOutline.tsx derives, on every render, a nested outline          *)
(* (chapters -> sections -> text blocks) from the editor's flat block      *)
(* list.  getOutlineStructure is a forEach over the blocks that keeps two  *)
(* cursors, currentChapter and currentSection, which are references to     *)
(* nodes already stored in the result.  The model keeps the result forest  *)
(* as a sequence of records and the two references as paths into it.       *)
(***************************************************************************)
EXTENDS Integers, Sequences, FiniteSets, TLC

(***************************************************************************)
(* Bounds of the exploration.                                              *)
(***************************************************************************)
MaxBlocks == 4

\* Longest content the word count is tried on.
MaxContentLen == 4

\* Longest block list from which the builder is called again.
MaxRebuildBlocks == 3

\* Number of calls of the builder after the first one.
MaxRebuilds == 1

\* Longest block list handed to the outline component.
MaxOutlineBlocks == 3

\* Longest title body of the title specification.
MaxTitleLen == 32

\* The editor: most blocks in the list, most state updates waiting for a
\* render, most milliseconds the clock advances.
MaxEditorBlocks == 2

MaxPending == 2

MaxTicks == 1

\* Most font loads started.
MaxAttempts == 2

\* The character budget of a row's label (displayContent.length > 30).
LabelBudget == 30

(***************************************************************************)
(* Inputs.  A block is {id, type, content}.  Ids are strings that the      *)
(* editor draws from Date.now() or reads back from storage, so two blocks  *)
(* may carry the same id.  The type is declared as one of four literals,   *)
(* but the list is read back from JSON, so any other string can occur at   *)
(* run time: "other" stands for those.  Contents are strings, kept as      *)
(* sequences of characters so that trimming and splitting are computed.    *)
(***************************************************************************)
Ids == {"1", "2"}

KnownTypes == {"text", "chapter", "section", "pagebreak"}

BlockTypes == KnownTypes \cup {"other"}

TextContents == { <<>>, <<"a", " ", "b">> }

TitleContents == { <<" ", "T">> }

ContentsOf(type) == IF type = "text" THEN TextContents ELSE TitleContents

TextBlock == UNION { [id : Ids, type : {t}, content : ContentsOf(t)] : t \in BlockTypes }

BoundedSeq(S, n) == UNION { [1..k -> S] : k \in 0..n }

(***************************************************************************)
(* String helpers of the word count: content.trim().split(/\s+/)           *)
(*   .filter(word => word.length > 0).length                               *)
(***************************************************************************)
IsSpace(c) == c \in {" ", "\n", "\t"}

RECURSIVE trimStart(_)
trimStart(s) ==
    IF s # <<>> /\ IsSpace(Head(s)) THEN trimStart(Tail(s)) ELSE s

RECURSIVE trimEnd(_)
trimEnd(s) ==
    IF s # <<>> /\ IsSpace(s[Len(s)]) THEN trimEnd(SubSeq(s, 1, Len(s) - 1)) ELSE s

trim(s) == trimEnd(trimStart(s))

\* String.prototype.split(/\s+/): the pieces between maximal runs of
\* whitespace; a separator at either end leaves an empty piece there, and
\* the empty string splits into one empty piece.
RECURSIVE splitFrom(_, _, _, _)
splitFrom(s, i, acc, cur) ==
    IF i > Len(s) THEN Append(acc, cur)
    ELSE IF IsSpace(s[i])
         THEN IF i > 1 /\ IsSpace(s[i - 1])
              THEN splitFrom(s, i + 1, acc, cur)
              ELSE splitFrom(s, i + 1, Append(acc, cur), <<>>)
         ELSE splitFrom(s, i + 1, acc, Append(cur, s[i]))

split(s) == splitFrom(s, 1, <<>>, <<>>)

NonEmptyWord(word) == Len(word) > 0

\* getWordCount as it would be without the filter.
getWordCountNoFilter(content) == Len(split(trim(content)))

getWordCount(content) == Len(SelectSeq(split(trim(content)), NonEmptyWord))

(***************************************************************************)
(* References.  currentChapter and currentSection hold either null or a    *)
(* reference to an object that was pushed into the result.  A reference is *)
(* the path of that object from the result list: a sequence of steps, each *)
(* naming a list and an index in it.  <<At("structure", i)>> is            *)
(* structure[i]; <<At("structure", i), At("sections", j)>> is              *)
(* structure[i].sections[j].                                               *)
(***************************************************************************)
null == <<>>

At(list, index) == [list |-> list, index |-> index]

RECURSIVE NodeAt(_, _)
NodeAt(nodes, p) ==
    LET n == nodes[p[1].index]
    IN  IF Len(p) = 1 THEN n ELSE NodeAt(n[p[2].list], Tail(p))

RECURSIVE SetNodeAt(_, _, _)
SetNodeAt(nodes, p, new) ==
    IF Len(p) = 1
    THEN [nodes EXCEPT ![p[1].index] = new]
    ELSE [nodes EXCEPT ![p[1].index] =
             [@ EXCEPT ![p[2].list] = SetNodeAt(@, Tail(p), new)]]

\* An optional property of OutlineStructure (sections?, textBlocks?) is
\* present on a node when the object literal that built it set it.
Has(node, field) == field \in DOMAIN node

(***************************************************************************)
(* The body of the forEach callback, one operator per branch.  st is the   *)
(* closure state [structure, currentChapter, currentSection].              *)
(***************************************************************************)
InitialScan == [structure |-> <<>>, currentChapter |-> null, currentSection |-> null]

\* OnChapter as it would be if it left the current section in place.
OnChapterKeepsSection(st, block) ==
    LET node == [id |-> block.id, type |-> "chapter", content |-> block.content,
                 sections |-> <<>>, textBlocks |-> <<>>, wordCount |-> 0]
    IN  [structure      |-> Append(st.structure, node),
         currentChapter |-> <<At("structure", Len(st.structure) + 1)>>,
         currentSection |-> st.currentSection]

\* OnChapter as it would be if a chapter whose id is already at top level
\* were looked up and reused.
OnChapterMergesById(st, block) ==
    LET node == [id |-> block.id, type |-> "chapter", content |-> block.content,
                 sections |-> <<>>, textBlocks |-> <<>>, wordCount |-> 0]
        same == { i \in 1..Len(st.structure) :
                    st.structure[i].type = "chapter" /\ st.structure[i].id = block.id }
    IN  IF same # {}
        THEN [structure      |-> st.structure,
              currentChapter |-> <<At("structure", CHOOSE i \in same : TRUE)>>,
              currentSection |-> null]
        ELSE [structure      |-> Append(st.structure, node),
              currentChapter |-> <<At("structure", Len(st.structure) + 1)>>,
              currentSection |-> null]

\* OnChapter as it would be if the literal left out textBlocks.
OnChapterNoTextBlocks(st, block) ==
    LET node == [id |-> block.id, type |-> "chapter", content |-> block.content,
                 sections |-> <<>>, wordCount |-> 0]
    IN  [structure      |-> Append(st.structure, node),
         currentChapter |-> <<At("structure", Len(st.structure) + 1)>>,
         currentSection |-> null]

\* OnChapter as it would be if the words of the title were counted.
OnChapterCountsTitle(st, block) ==
    LET node == [id |-> block.id, type |-> "chapter", content |-> block.content,
                 sections |-> <<>>, textBlocks |-> <<>>,
                 wordCount |-> getWordCount(block.content)]
    IN  [structure      |-> Append(st.structure, node),
         currentChapter |-> <<At("structure", Len(st.structure) + 1)>>,
         currentSection |-> null]

\* OnChapter as it would be if a chapter met inside a chapter were filed
\* among that chapter's sections.
OnChapterUnderChapter(st, block) ==
    LET node == [id |-> block.id, type |-> "chapter", content |-> block.content,
                 sections |-> <<>>, textBlocks |-> <<>>, wordCount |-> 0]
    IN  IF st.currentChapter = null
        THEN [structure      |-> Append(st.structure, node),
              currentChapter |-> <<At("structure", Len(st.structure) + 1)>>,
              currentSection |-> null]
        ELSE LET chapter == NodeAt(st.structure, st.currentChapter)
             IN  [structure      |-> SetNodeAt(st.structure, st.currentChapter,
                                        [chapter EXCEPT !.sections = Append(@, node)]),
                  currentChapter |-> st.currentChapter,
                  currentSection |-> null]

OnChapter(st, block) ==
    LET node == [id |-> block.id, type |-> "chapter", content |-> block.content,
                 sections |-> <<>>, textBlocks |-> <<>>, wordCount |-> 0]
    IN  [structure      |-> Append(st.structure, node),
         currentChapter |-> <<At("structure", Len(st.structure) + 1)>>,
         currentSection |-> null]

\* OnSection as it would be if every section went to the top-level list.
OnSectionTopLevel(st, block) ==
    LET node == [id |-> block.id, type |-> "section", content |-> block.content,
                 textBlocks |-> <<>>, wordCount |-> 0]
    IN  [structure      |-> Append(st.structure, node),
         currentChapter |-> st.currentChapter,
         currentSection |-> <<At("structure", Len(st.structure) + 1)>>]

\* OnSection as it would be if it stored the trimmed title.
OnSectionTrimsTitle(st, block) ==
    LET node == [id |-> block.id, type |-> "section", content |-> trim(block.content),
                 textBlocks |-> <<>>, wordCount |-> 0]
    IN  IF st.currentChapter # null
        THEN LET ch == NodeAt(st.structure, st.currentChapter)
             IN  [structure      |-> SetNodeAt(st.structure, st.currentChapter,
                                        [ch EXCEPT !.sections = Append(@, node)]),
                  currentChapter |-> st.currentChapter,
                  currentSection |-> st.currentChapter
                                       \o <<At("sections", Len(ch.sections) + 1)>>]
        ELSE [structure      |-> Append(st.structure, node),
              currentChapter |-> st.currentChapter,
              currentSection |-> <<At("structure", Len(st.structure) + 1)>>]

\* OnSection as it would be if a section after the first of a scan left the
\* current section where it was.
OnSectionKeepsCursor(st, block) ==
    LET node == [id |-> block.id, type |-> "section", content |-> block.content,
                 textBlocks |-> <<>>, wordCount |-> 0]
        keep(new) == IF st.currentSection # null THEN st.currentSection ELSE new
    IN  IF st.currentChapter # null
        THEN LET ch == NodeAt(st.structure, st.currentChapter)
             IN  [structure      |-> SetNodeAt(st.structure, st.currentChapter,
                                        [ch EXCEPT !.sections = Append(@, node)]),
                  currentChapter |-> st.currentChapter,
                  currentSection |-> keep(st.currentChapter
                                       \o <<At("sections", Len(ch.sections) + 1)>>)]
        ELSE [structure      |-> Append(st.structure, node),
              currentChapter |-> st.currentChapter,
              currentSection |-> keep(<<At("structure", Len(st.structure) + 1)>>)]

OnSection(st, block) ==
    LET node == [id |-> block.id, type |-> "section", content |-> block.content,
                 textBlocks |-> <<>>, wordCount |-> 0]
    IN  IF st.currentChapter # null
        THEN LET ch == NodeAt(st.structure, st.currentChapter)
             IN  [structure      |-> SetNodeAt(st.structure, st.currentChapter,
                                        [ch EXCEPT !.sections = Append(@, node)]),
                  currentChapter |-> st.currentChapter,
                  currentSection |-> st.currentChapter
                                       \o <<At("sections", Len(ch.sections) + 1)>>]
        ELSE [structure      |-> Append(st.structure, node),
              currentChapter |-> st.currentChapter,
              currentSection |-> <<At("structure", Len(st.structure) + 1)>>]

\* PushText as it would be with unshift in place of push.
PushTextFront(s, p, textBlock) ==
    SetNodeAt(s, p, [NodeAt(s, p) EXCEPT !.textBlocks = <<textBlock>> \o @])

PushText(s, p, textBlock) ==
    SetNodeAt(s, p, [NodeAt(s, p) EXCEPT !.textBlocks = Append(@, textBlock)])

AddWordCount(s, p, wordCount) ==
    SetNodeAt(s, p, [NodeAt(s, p) EXCEPT !.wordCount = @ + wordCount])

\* OnText as it would be if a text under a section were counted in the
\* section only.
OnTextSectionOnly(st, block) ==
    LET wordCount == getWordCount(block.content)
        textBlock == [id |-> block.id, type |-> "text", content |-> block.content,
                      wordCount |-> wordCount]
        s == st.structure
    IN  IF st.currentSection # null
        THEN [st EXCEPT !.structure =
                 AddWordCount(PushText(s, st.currentSection, textBlock),
                              st.currentSection, wordCount)]
        ELSE IF st.currentChapter # null
        THEN [st EXCEPT !.structure =
                 AddWordCount(PushText(s, st.currentChapter, textBlock),
                              st.currentChapter, wordCount)]
        ELSE [st EXCEPT !.structure = Append(s, textBlock)]

\* OnText as it would be without the final else: a text with neither a
\* section nor a chapter to go to is left out.
OnTextDropsOrphan(st, block) ==
    LET wordCount == getWordCount(block.content)
        textBlock == [id |-> block.id, type |-> "text", content |-> block.content,
                      wordCount |-> wordCount]
        s == st.structure
    IN  IF st.currentSection # null
        THEN LET s1 == AddWordCount(PushText(s, st.currentSection, textBlock),
                                    st.currentSection, wordCount)
                 s2 == IF st.currentChapter # null
                       THEN AddWordCount(s1, st.currentChapter, wordCount)
                       ELSE s1
             IN  [st EXCEPT !.structure = s2]
        ELSE IF st.currentChapter # null
        THEN [st EXCEPT !.structure =
                 AddWordCount(PushText(s, st.currentChapter, textBlock),
                              st.currentChapter, wordCount)]
        ELSE st

\* OnText as it would be without the chapter branch: a text with no current
\* section goes to the top level.
OnTextSkipsChapter(st, block) ==
    LET wordCount == getWordCount(block.content)
        textBlock == [id |-> block.id, type |-> "text", content |-> block.content,
                      wordCount |-> wordCount]
        s == st.structure
    IN  IF st.currentSection # null
        THEN LET s1 == AddWordCount(PushText(s, st.currentSection, textBlock),
                                    st.currentSection, wordCount)
                 s2 == IF st.currentChapter # null
                       THEN AddWordCount(s1, st.currentChapter, wordCount)
                       ELSE s1
             IN  [st EXCEPT !.structure = s2]
        ELSE [st EXCEPT !.structure = Append(s, textBlock)]

OnText(st, block) ==
    LET wordCount == getWordCount(block.content)
        textBlock == [id |-> block.id, type |-> "text", content |-> block.content,
                      wordCount |-> wordCount]
        s == st.structure
    IN  IF st.currentSection # null
        THEN LET s1 == AddWordCount(PushText(s, st.currentSection, textBlock),
                                    st.currentSection, wordCount)
                 s2 == IF st.currentChapter # null
                       THEN AddWordCount(s1, st.currentChapter, wordCount)
                       ELSE s1
             IN  [st EXCEPT !.structure = s2]
        ELSE IF st.currentChapter # null
        THEN [st EXCEPT !.structure =
                 AddWordCount(PushText(s, st.currentChapter, textBlock),
                              st.currentChapter, wordCount)]
        ELSE [st EXCEPT !.structure = Append(s, textBlock)]

\* The callback as it would be if only chapters and sections were told
\* apart and every other block, a pagebreak included, were taken as text.
ProcessBlockNoEarlyReturn(st, block) ==
    IF block.type = "chapter" THEN OnChapter(st, block)
    ELSE IF block.type = "section" THEN OnSection(st, block)
    ELSE OnText(st, block)

\* The callback as it would be if the text branch were a plain else.
ProcessBlockDefaultText(st, block) ==
    IF block.type = "pagebreak" THEN st
    ELSE IF block.type = "chapter" THEN OnChapter(st, block)
    ELSE IF block.type = "section" THEN OnSection(st, block)
    ELSE OnText(st, block)

\* The callback as it would be if a pagebreak closed the current section.
ProcessBlockPagebreakEndsSection(st, block) ==
    IF block.type = "pagebreak" THEN [st EXCEPT !.currentSection = null]
    ELSE IF block.type = "chapter" THEN OnChapter(st, block)
    ELSE IF block.type = "section" THEN OnSection(st, block)
    ELSE IF block.type = "text" THEN OnText(st, block)
    ELSE st

\* The callback as a whole: the early return for a pagebreak, the if / else-if
\* chain for the three known kinds, and no branch at all for anything else.
ProcessBlock(st, block) ==
    IF block.type = "pagebreak" THEN st
    ELSE IF block.type = "chapter" THEN OnChapter(st, block)
    ELSE IF block.type = "section" THEN OnSection(st, block)
    ELSE IF block.type = "text" THEN OnText(st, block)
    ELSE st

\* The callback raises a TypeError where it calls push on a property that is
\* undefined: currentChapter.sections!.push and currentSection.textBlocks!.push
\* / currentChapter.textBlocks!.push assert the property without testing it.
Throws(st, block) ==
    \/ /\ block.type = "section"
       /\ st.currentChapter # null
       /\ ~Has(NodeAt(st.structure, st.currentChapter), "sections")
    \/ /\ block.type = "text"
       /\ st.currentSection # null
       /\ ~Has(NodeAt(st.structure, st.currentSection), "textBlocks")
    \/ /\ block.type = "text"
       /\ st.currentSection = null
       /\ st.currentChapter # null
       /\ ~Has(NodeAt(st.structure, st.currentChapter), "textBlocks")

RECURSIVE ScanFrom(_, _, _)
ScanFrom(st, bs, i) ==
    IF i > Len(bs) THEN st ELSE ScanFrom(ProcessBlock(st, bs[i]), bs, i + 1)

\* getOutlineStructure applied to a block list.
getOutlineStructure(bs) == ScanFrom(InitialScan, bs, 1).structure

(***************************************************************************)
(* Where a visit put its node.  The lists of the forest only grow by push, *)
(* so the node a visit emitted sits at the end of the one list that is     *)
(* longer after the visit than before; no list is longer when the visit    *)
(* emitted nothing.                                                        *)
(***************************************************************************)
ListOf(node, field) == IF Has(node, field) THEN node[field] ELSE <<>>

Longer(old, new, field) == Len(ListOf(new, field)) > Len(ListOf(old, field))

PushedAt(old, new) ==
    IF Len(new) > Len(old) THEN <<At("structure", Len(new))>>
    ELSE LET top == { i \in 1..Len(new) :
                        \/ Longer(old[i], new[i], "sections")
                        \/ Longer(old[i], new[i], "textBlocks")
                        \/ \E j \in 1..Len(ListOf(old[i], "sections")) :
                              Longer(old[i].sections[j], new[i].sections[j], "textBlocks") }
         IN  IF top = {} THEN null
             ELSE LET i == CHOOSE i \in top : TRUE
                  IN  IF Longer(old[i], new[i], "sections")
                      THEN <<At("structure", i), At("sections", Len(new[i].sections))>>
                      ELSE IF Longer(old[i], new[i], "textBlocks")
                      THEN <<At("structure", i), At("textBlocks", Len(new[i].textBlocks))>>
                      ELSE LET j == CHOOSE j \in 1..Len(old[i].sections) :
                                      Longer(old[i].sections[j], new[i].sections[j], "textBlocks")
                           IN  <<At("structure", i), At("sections", j),
                                 At("textBlocks", Len(new[i].sections[j].textBlocks))>>

(***************************************************************************)
(* State.                                                                  *)
(***************************************************************************)
VARIABLES
    blocks,          \* props.blocks, the list the host passes in
    pos,             \* index of the next block forEach will visit
    structure,       \* the local result list
    currentChapter,  \* reference to the chapter being filled, or null
    currentSection,  \* reference to the section being filled, or null
    returned,        \* TRUE once getOutlineStructure has returned structure
    thrown,          \* TRUE once the callback has raised and the build is abandoned
    placed           \* history: for each visited block, where its node was pushed

VARIABLES
    countInput,      \* a content string whose words are counted
    counted,         \* <<>>, or <<n>> once n words have been counted in it
    earlier          \* the forests earlier calls of the builder returned

VARIABLES
    collapsedBlocks, \* props.collapsedBlocks, owned by the host
    isMinimized,     \* the component's own state (useState(false))
    view,            \* what the component's latest render returned
    event,           \* the latest click: its target element and the row it is in
    calls,           \* the calls of the two callbacks made while handling it
    first            \* history: the props and the rows of the first render

VARIABLES
    rendered,        \* the editor's blocks as of its latest render, which handlers read
    queue,           \* state updaters passed to setBlocks and not yet applied
    saved,           \* localStorage entry writeaid_<bookTitle>, or none
    now              \* Date.now()

VARIABLES
    attempts,        \* one record per call of loadGoogleFont that got past the guard
    isLoading,       \* Settings' state (useState(false))
    font             \* the font last passed to onFontChange and the entry writeaid_font

scanVars == <<pos, currentChapter, currentSection, returned, thrown, placed>>

wordVars == <<countInput, counted>>

outlineVars == <<collapsedBlocks, isMinimized, view, event, calls, first>>

editorVars == <<rendered, queue, saved, now>>

fontVars == <<attempts, isLoading, font>>

vars == <<blocks, structure, scanVars, wordVars, earlier, outlineVars, editorVars, fontVars>>

\* Values of a JavaScript variable that holds a Set of ids or nothing.
SetOf(ids) == [type |-> "Set", elems |-> ids]

undefined == [type |-> "undefined"]

\* The parts of the state a specification does not use stay as they are here.
ScanIdle ==
    /\ pos = 1
    /\ currentChapter = null
    /\ currentSection = null
    /\ returned = FALSE
    /\ thrown = FALSE
    /\ placed = <<>>

WordsIdle == countInput = <<>> /\ counted = <<>>

RebuildIdle == earlier = <<>>

\* Date.now() when the editor is opened.
Clock0 == 1700

EditorIdle == rendered = <<>> /\ queue = <<>> /\ saved = [kind |-> "none"] /\ now = Clock0

FontsIdle ==
    /\ attempts = <<>>
    /\ isLoading = FALSE
    /\ font = [current |-> <<>>, stored |-> [kind |-> "none"]]

OutlineIdle ==
    /\ collapsedBlocks = SetOf({})
    /\ isMinimized = FALSE
    /\ view = [kind |-> "none"]
    /\ event = [target |-> "none"]
    /\ calls = <<>>
    /\ first = [kind |-> "none"]

scan == [structure |-> structure, currentChapter |-> currentChapter,
         currentSection |-> currentSection]

Init ==
    /\ blocks \in BoundedSeq(TextBlock, MaxBlocks)
    /\ pos = 1
    /\ structure = InitialScan.structure
    /\ currentChapter = InitialScan.currentChapter
    /\ currentSection = InitialScan.currentSection
    /\ returned = FALSE
    /\ thrown = FALSE
    /\ placed = <<>>
    /\ WordsIdle
    /\ RebuildIdle
    /\ EditorIdle
    /\ FontsIdle
    /\ OutlineIdle

\* One call of the forEach callback, on blocks[pos].
Visit(block) ==
    /\ ~returned
    /\ ~thrown
    /\ IF Throws(scan, block)
       THEN /\ thrown' = TRUE
            /\ UNCHANGED <<pos, structure, currentChapter, currentSection, placed>>
       ELSE \E st \in {ProcessBlock(scan, block)} :
                /\ structure' = st.structure
                /\ currentChapter' = st.currentChapter
                /\ currentSection' = st.currentSection
                /\ pos' = pos + 1
                /\ placed' = Append(placed, PushedAt(structure, st.structure))
                /\ thrown' = FALSE
    /\ UNCHANGED <<blocks, returned, wordVars, earlier, outlineVars, editorVars, fontVars>>

VisitPagebreak ==
    /\ pos <= Len(blocks)
    /\ blocks[pos].type = "pagebreak"
    /\ Visit(blocks[pos])

VisitChapter ==
    /\ pos <= Len(blocks)
    /\ blocks[pos].type = "chapter"
    /\ Visit(blocks[pos])

VisitSection ==
    /\ pos <= Len(blocks)
    /\ blocks[pos].type = "section"
    /\ Visit(blocks[pos])

VisitText ==
    /\ pos <= Len(blocks)
    /\ blocks[pos].type = "text"
    /\ Visit(blocks[pos])

VisitOther ==
    /\ pos <= Len(blocks)
    /\ blocks[pos].type \notin KnownTypes
    /\ Visit(blocks[pos])

Return ==
    /\ ~returned
    /\ ~thrown
    /\ pos > Len(blocks)
    /\ returned' = TRUE
    /\ UNCHANGED <<blocks, pos, structure, currentChapter, currentSection, thrown, placed>>
    /\ UNCHANGED <<wordVars, earlier, outlineVars, editorVars, fontVars>>

Next ==
    \/ VisitPagebreak
    \/ VisitChapter
    \/ VisitSection
    \/ VisitText
    \/ VisitOther
    \/ Return

Spec == Init /\ [][Next]_vars

(***************************************************************************)
(* The builder called again.  DocumentOutline calls getOutlineStructure in *)
(* its body, so every render of the component is one more call, on the     *)
(* blocks of that render.  structure, currentChapter and currentSection    *)
(* are locals of the call, and every node is a fresh object literal that   *)
(* copies id and content out of the block: a call starts from nothing the  *)
(* call before it left, and holds no reference into an earlier result.     *)
(***************************************************************************)
\* The locals as they would be if structure were declared outside the
\* function and so kept from call to call.
StartScanKeepsStructure(prior) == [InitialScan EXCEPT !.structure = prior.structure]

\* The locals at the start of a call; prior is what the call before left.
StartScan(prior) == InitialScan

RebuildInit ==
    /\ blocks \in BoundedSeq(TextBlock, MaxRebuildBlocks)
    /\ structure = InitialScan.structure
    /\ ScanIdle
    /\ WordsIdle
    /\ RebuildIdle
    /\ EditorIdle
    /\ FontsIdle
    /\ OutlineIdle

\* The caller keeps the forest it got and the component renders once more.
CallAgain ==
    /\ returned
    /\ Len(earlier) < MaxRebuilds
    /\ earlier' = Append(earlier, structure)
    /\ LET st == StartScan(scan)
       IN  /\ structure' = st.structure
           /\ currentChapter' = st.currentChapter
           /\ currentSection' = st.currentSection
    /\ pos' = 1
    /\ returned' = FALSE
    /\ thrown' = FALSE
    /\ placed' = <<>>
    /\ UNCHANGED <<blocks, wordVars, outlineVars, editorVars, fontVars>>

RebuildNext ==
    \/ VisitPagebreak
    \/ VisitChapter
    \/ VisitSection
    \/ VisitText
    \/ VisitOther
    \/ Return
    \/ CallAgain

SpecRebuild == RebuildInit /\ [][RebuildNext]_vars

(***************************************************************************)
(* The word count on its own: a text block of any content up to            *)
(* MaxContentLen characters is built into its node and the node's          *)
(* wordCount is read.                                                      *)
(***************************************************************************)
Chars == {"a", "b", " ", "\n"}

WordsInit ==
    /\ countInput \in BoundedSeq(Chars, MaxContentLen)
    /\ counted = <<>>
    /\ blocks = <<>>
    /\ structure = <<>>
    /\ ScanIdle
    /\ RebuildIdle
    /\ EditorIdle
    /\ FontsIdle
    /\ OutlineIdle

CountWords ==
    /\ counted = <<>>
    /\ LET built == getOutlineStructure(
                       <<[id |-> "1", type |-> "text", content |-> countInput]>>)
       IN  counted' = <<built[1].wordCount>>
    /\ UNCHANGED <<countInput, blocks, structure, scanVars, earlier, outlineVars, editorVars, fontVars>>

WordsNext == CountWords

SpecWords == WordsInit /\ [][WordsNext]_vars

(***************************************************************************)
(* The outline component.  DocumentOutline builds the forest, sums the     *)
(* top-level word counts and returns either the minimized card or the      *)
(* card with one OutlineItem per top-level node; OutlineItem returns its   *)
(* row and, when the node has children and is not collapsed, one           *)
(* OutlineItem per section and then per text block.  A view is what a      *)
(* render returned: the rows in document order, each with the path of its  *)
(* node in the forest.                                                     *)
(***************************************************************************)
\* `Untitled ${item.type}` as characters.
KindChars(type) ==
    CASE type = "chapter" -> <<"c", "h", "a", "p", "t", "e", "r">>
      [] type = "section" -> <<"s", "e", "c", "t", "i", "o", "n">>
      [] type = "text"    -> <<"t", "e", "x", "t">>

Untitled(type) == <<"U", "n", "t", "i", "t", "l", "e", "d", " ">> \o KindChars(type)

\* item.content.trim() || `Untitled ${item.type}`
displayContent(item) ==
    IF trim(item.content) # <<>> THEN trim(item.content) ELSE Untitled(item.type)

\* truncatedContent as it would be if a label of exactly 30 characters were cut.
truncatedContentFrom30(display) ==
    IF Len(display) >= LabelBudget
    THEN SubSeq(display, 1, LabelBudget) \o <<".", ".", ".">>
    ELSE display

\* displayContent.length > 30 ? displayContent.slice(0, 30) + '...' : displayContent
truncatedContent(display) ==
    IF Len(display) > LabelBudget
    THEN SubSeq(display, 1, LabelBudget) \o <<".", ".", ".">>
    ELSE display

\* collapsedBlocks.has(id)
SetHas(cb, id) == id \in cb.elems

RECURSIVE OutlineItemShowsAll(_, _, _, _)
RECURSIVE MapItemsShowsAll(_, _, _, _, _, _)
\* OutlineItem as it would be if the children were rendered whether or not
\* the node is collapsed.
OutlineItemShowsAll(item, level, cb, path) ==
    LET hasChildren == \/ Has(item, "sections") /\ Len(item.sections) > 0
                       \/ Has(item, "textBlocks") /\ Len(item.textBlocks) > 0
        isCollapsed == SetHas(cb, item.id)
        row == [id |-> item.id, type |-> item.type, level |-> level, path |-> path,
                toggle |-> hasChildren, isCollapsed |-> isCollapsed,
                title |-> displayContent(item),
                label |-> truncatedContent(displayContent(item)),
                wordCount |-> item.wordCount]
    IN  <<row>> \o
        (IF hasChildren
         THEN MapItemsShowsAll(ListOf(item, "sections"), "sections", level + 1, cb, path, 1)
              \o MapItemsShowsAll(ListOf(item, "textBlocks"), "textBlocks", level + 1, cb, path, 1)
         ELSE <<>>)

MapItemsShowsAll(list, name, level, cb, parent, i) ==
    IF i > Len(list) THEN <<>>
    ELSE OutlineItemShowsAll(list[i], level, cb, parent \o <<At(name, i)>>)
         \o MapItemsShowsAll(list, name, level, cb, parent, i + 1)

RECURSIVE OutlineItem(_, _, _, _)
RECURSIVE MapItems(_, _, _, _, _, _)
\* OutlineItem as it would be if every row had the toggle button.
OutlineItemAlwaysToggle(item, level, cb, path) ==
    LET hasChildren == \/ Has(item, "sections") /\ Len(item.sections) > 0
                       \/ Has(item, "textBlocks") /\ Len(item.textBlocks) > 0
        isCollapsed == SetHas(cb, item.id)
        row == [id |-> item.id, type |-> item.type, level |-> level, path |-> path,
                toggle |-> TRUE, isCollapsed |-> isCollapsed,
                title |-> displayContent(item),
                label |-> truncatedContent(displayContent(item)),
                wordCount |-> item.wordCount]
    IN  <<row>> \o
        (IF hasChildren /\ ~isCollapsed
         THEN MapItems(ListOf(item, "sections"), "sections", level + 1, cb, path, 1)
              \o MapItems(ListOf(item, "textBlocks"), "textBlocks", level + 1, cb, path, 1)
         ELSE <<>>)

OutlineItem(item, level, cb, path) ==
    LET hasChildren == \/ Has(item, "sections") /\ Len(item.sections) > 0
                       \/ Has(item, "textBlocks") /\ Len(item.textBlocks) > 0
        isCollapsed == SetHas(cb, item.id)
        row == [id |-> item.id, type |-> item.type, level |-> level, path |-> path,
                toggle |-> hasChildren, isCollapsed |-> isCollapsed,
                title |-> displayContent(item),
                label |-> truncatedContent(displayContent(item)),
                wordCount |-> item.wordCount]
    IN  <<row>> \o
        (IF hasChildren /\ ~isCollapsed
         THEN MapItems(ListOf(item, "sections"), "sections", level + 1, cb, path, 1)
              \o MapItems(ListOf(item, "textBlocks"), "textBlocks", level + 1, cb, path, 1)
         ELSE <<>>)

\* MapItems as it would be if a list were rendered last element first.
MapItemsBackwards(list, name, level, cb, parent, i) ==
    IF i > Len(list) THEN <<>>
    ELSE MapItems(list, name, level, cb, parent, i + 1)
         \o OutlineItem(list[i], level, cb, parent \o <<At(name, i)>>)

\* list.map(x => <OutlineItem item={x} level={level} ... />), from index i on.
MapItems(list, name, level, cb, parent, i) ==
    IF i > Len(list) THEN <<>>
    ELSE OutlineItem(list[i], level, cb, parent \o <<At(name, i)>>)
         \o MapItems(list, name, level, cb, parent, i + 1)

\* TotalWords as it would be if it summed the counts of the nested nodes too.
RECURSIVE TotalWordsDeep(_)
TotalWordsDeep(nodes) ==
    IF nodes = <<>> THEN 0
    ELSE Head(nodes).wordCount
         + TotalWordsDeep(ListOf(Head(nodes), "sections"))
         + TotalWordsDeep(ListOf(Head(nodes), "textBlocks"))
         + TotalWordsDeep(Tail(nodes))

\* structure.reduce((total, item) => total + item.wordCount, 0)
RECURSIVE TotalWords(_)
TotalWords(nodes) ==
    IF nodes = <<>> THEN 0 ELSE Head(nodes).wordCount + TotalWords(Tail(nodes))

\* OutlineItem reads collapsedBlocks.has: with anything but a Set in the prop
\* the first OutlineItem rendered raises a TypeError.
RenderThrows(st, cb, min) == ~min /\ st # <<>> /\ cb.type # "Set"

RECURSIVE VisibleWords(_)
VisibleWords(rows) ==
    IF rows = <<>> THEN 0
    ELSE (IF Head(rows).type = "text" THEN Head(rows).wordCount ELSE 0)
         + VisibleWords(Tail(rows))

\* The component as it would be if the total were summed over the text rows
\* on display.
DocumentOutlineVisibleTotal(bs, cb, min) ==
    LET st == getOutlineStructure(bs)
    IN  [structure |-> st,
         view |-> IF min THEN [kind |-> "minimized"]
                  ELSE IF RenderThrows(st, cb, min) THEN [kind |-> "error"]
                  ELSE LET rows == MapItems(st, "structure", 0, cb, <<>>, 1)
                       IN  [kind |-> "outline", totalWords |-> VisibleWords(rows),
                            rows |-> rows]]

\* One render of DocumentOutline: the forest it built and the view it returned.
DocumentOutline(bs, cb, min) ==
    LET st == getOutlineStructure(bs)
        totalWords == TotalWords(st)
    IN  [structure |-> st,
         view |-> IF min THEN [kind |-> "minimized"]
                  ELSE IF RenderThrows(st, cb, min) THEN [kind |-> "error"]
                  ELSE [kind |-> "outline", totalWords |-> totalWords,
                        rows |-> MapItems(st, "structure", 0, cb, <<>>, 1)]]

(***************************************************************************)
(* Clicks.  The row is a div with onClick; the toggle is a Button inside   *)
(* that div with its own onClick.  A click on the button runs the button's *)
(* handler and then, unless that handler stopped the propagation, the      *)
(* row's.                                                                  *)
(***************************************************************************)
Call(fn, id) == [fn |-> fn, id |-> id]

\* The row's handler as it would be if a click on the row opened or closed it.
RowOnClickAlsoToggles(row) ==
    [calls |-> <<Call("navigate", row.id), Call("toggleCollapse", row.id)>>,
     stopPropagation |-> FALSE]

\* onClick={() => onNavigateToBlock(item.id)}
RowOnClick(row) ==
    [calls |-> <<Call("navigate", row.id)>>, stopPropagation |-> FALSE]

\* The button's handler as it would be without e.stopPropagation().
ButtonOnClickPropagates(row) ==
    [calls |-> <<Call("toggleCollapse", row.id)>>, stopPropagation |-> FALSE]

\* onClick={(e) => { e.stopPropagation(); onToggleCollapse(item.id); }}
ButtonOnClick(row) ==
    [calls |-> <<Call("toggleCollapse", row.id)>>, stopPropagation |-> TRUE]

\* The callback calls a click on the given element of a row makes.
Dispatch(target, row) ==
    IF target = "toggle"
    THEN LET b == ButtonOnClick(row)
         IN  b.calls \o (IF b.stopPropagation THEN <<>> ELSE RowOnClick(row).calls)
    ELSE RowOnClick(row).calls

\* What the host does with the calls: it adds the id of a toggleCollapse to
\* its set or removes it; a navigate scrolls and changes no state here.
RECURSIVE HostResponse(_, _)
HostResponse(cb, cs) ==
    IF cs = <<>> THEN cb
    ELSE LET c == Head(cs)
             next == IF c.fn = "toggleCollapse"
                     THEN IF c.id \in cb.elems
                          THEN SetOf(cb.elems \ {c.id})
                          ELSE SetOf(cb.elems \cup {c.id})
                     ELSE cb
         IN  HostResponse(next, Tail(cs))

\* The blocks an outline is built from: those that leave a node.
OutlineBlock == { b \in TextBlock : b.type \in {"text", "chapter", "section"} }

Mounted(props) ==
    /\ blocks \in BoundedSeq(OutlineBlock, MaxOutlineBlocks)
    /\ collapsedBlocks \in props
    /\ isMinimized = FALSE
    /\ \E r \in {DocumentOutline(blocks, collapsedBlocks, isMinimized)} :
          /\ structure = r.structure
          /\ view = r.view
          /\ first = [collapsedBlocks |-> collapsedBlocks,
                      structure |-> r.structure, view |-> r.view]
    /\ event = [target |-> "none"]
    /\ calls = <<>>
    /\ ScanIdle
    /\ WordsIdle
    /\ RebuildIdle
    /\ EditorIdle
    /\ FontsIdle

\* The component right after its first render, with a Set in the prop.
OutlineInit == Mounted({ SetOf(ids) : ids \in SUBSET Ids })

\* The same with the prop as a caller outside the type checker can leave it.
UntypedInit == Mounted({ SetOf(ids) : ids \in SUBSET Ids } \cup {undefined})

\* The render that follows a change of props or state.
Rerender ==
    \E r \in {DocumentOutline(blocks', collapsedBlocks', isMinimized')} :
        structure' = r.structure /\ view' = r.view

ClickRowExpands ==
    /\ view.kind = "outline"
    /\ \E i \in 1..Len(view.rows) :
          LET row == view.rows[i]
          IN  /\ event' = [target |-> "row", id |-> row.id, path |-> row.path,
                           isCollapsed |-> row.isCollapsed]
              /\ calls' = Dispatch("row", row)
              /\ collapsedBlocks' = SetOf(collapsedBlocks.elems \ {row.id})
    /\ UNCHANGED <<blocks, isMinimized, first, scanVars, wordVars, earlier, editorVars, fontVars>>
    /\ Rerender

\* A click on a row outside its toggle.  The host scrolls to the block; no
\* prop and no state changes, so the component is not rendered again.
ClickRow ==
    /\ view.kind = "outline"
    /\ \E i \in 1..Len(view.rows) :
          LET row == view.rows[i]
          IN  /\ event' = [target |-> "row", id |-> row.id, path |-> row.path,
                           isCollapsed |-> row.isCollapsed]
              /\ calls' = Dispatch("row", row)
    /\ collapsedBlocks' = HostResponse(collapsedBlocks, calls')
    /\ UNCHANGED <<blocks, structure, view, isMinimized, first,
                   scanVars, wordVars, earlier, editorVars, fontVars>>

\* The toggle as it would be if OutlineItem kept the collapsed flag itself.
ClickToggleLocalState ==
    /\ view.kind = "outline"
    /\ \E i \in 1..Len(view.rows) :
          LET row == view.rows[i]
          IN  /\ row.toggle
              /\ event' = [target |-> "toggle", id |-> row.id, path |-> row.path,
                           isCollapsed |-> row.isCollapsed]
              /\ calls' = <<>>
              /\ view' = DocumentOutline(blocks,
                            HostResponse(collapsedBlocks, Dispatch("toggle", row)),
                            isMinimized).view
    /\ UNCHANGED <<blocks, structure, collapsedBlocks, isMinimized, first,
                   scanVars, wordVars, earlier, editorVars, fontVars>>

\* A click on the toggle of a row that has one.  The host answers the
\* callback by changing its set, which renders the component again.
ClickToggle ==
    /\ view.kind = "outline"
    /\ \E i \in 1..Len(view.rows) :
          LET row == view.rows[i]
          IN  /\ row.toggle
              /\ event' = [target |-> "toggle", id |-> row.id, path |-> row.path,
                           isCollapsed |-> row.isCollapsed]
              /\ calls' = Dispatch("toggle", row)
    /\ collapsedBlocks' = HostResponse(collapsedBlocks, calls')
    /\ UNCHANGED <<blocks, isMinimized, first, scanVars, wordVars, earlier, editorVars, fontVars>>
    /\ Rerender

\* onClick={() => setIsMinimized(true)} of the button in the header.
Minimize ==
    /\ view.kind = "outline"
    /\ isMinimized' = TRUE
    /\ event' = [target |-> "minimize"]
    /\ calls' = <<>>
    /\ UNCHANGED <<blocks, collapsedBlocks, first, scanVars, wordVars, earlier, editorVars, fontVars>>
    /\ Rerender

\* onClick={() => setIsMinimized(false)} of the button of the minimized card.
Show ==
    /\ view.kind = "minimized"
    /\ isMinimized' = FALSE
    /\ event' = [target |-> "show"]
    /\ calls' = <<>>
    /\ UNCHANGED <<blocks, collapsedBlocks, first, scanVars, wordVars, earlier, editorVars, fontVars>>
    /\ Rerender

OutlineNext ==
    \/ ClickRow
    \/ ClickToggle
    \/ Minimize
    \/ Show

SpecOutline == OutlineInit /\ [][OutlineNext]_vars

SpecOutlineUntyped == UntypedInit /\ [][OutlineNext]_vars

(***************************************************************************)
(* The first render of a one-block document whose content is a title of    *)
(* any length up to MaxTitleLen, with or without white space around it:    *)
(* the row's label and tooltip are computed on the whole title.            *)
(***************************************************************************)
Digit(i) == <<"0", "1", "2", "3", "4", "5", "6", "7", "8", "9">>[(i % 10) + 1]

TitleBody(n) == [i \in 1..n |-> Digit(i)]

Pads == { <<>>, <<" ">> }

Titles == { lead \o TitleBody(n) \o trail :
              lead \in Pads, trail \in Pads, n \in 0..MaxTitleLen }

TitlesInit ==
    /\ blocks \in { <<[id |-> "1", type |-> t, content |-> c]>> :
                        t \in {"text", "chapter", "section"}, c \in Titles }
    /\ structure = <<>>
    /\ ScanIdle
    /\ WordsIdle
    /\ RebuildIdle
    /\ EditorIdle
    /\ FontsIdle
    /\ OutlineIdle

\* The component is mounted and rendered for the first time.
Mount ==
    /\ view.kind = "none"
    /\ \E r \in {DocumentOutline(blocks, collapsedBlocks, isMinimized)} :
          /\ structure' = r.structure
          /\ view' = r.view
          /\ first' = [collapsedBlocks |-> collapsedBlocks,
                       structure |-> r.structure, view |-> r.view]
    /\ UNCHANGED <<blocks, collapsedBlocks, isMinimized, event, calls,
                   scanVars, wordVars, earlier, editorVars, fontVars>>

TitlesNext == Mount

SpecTitles == TitlesInit /\ [][TitlesNext]_vars

(***************************************************************************)
(* The editor's block list.  blocks is the React state; a handler reads    *)
(* the list of the render it was created in (rendered) and passes an       *)
(* updater to setBlocks; the updaters waiting are applied in order, each   *)
(* to the result of the one before, when the component renders again.      *)
(***************************************************************************)
DefaultBlocks == <<[id |-> "1", type |-> "text", content |-> ""]>>

\* type === 'pagebreak' ? '--- Page Break ---' : ... : ''
DefaultContent(type) ==
    CASE type = "pagebreak" -> "--- Page Break ---"
      [] type = "chapter"   -> "Chapter Title"
      [] type = "section"   -> "Section Title"
      [] OTHER              -> ""

\* blocks.findIndex(block => block.id === id), 0 for -1 and 1-based otherwise.
findIndex(list, id) ==
    LET hits == { i \in 1..Len(list) : list[i].id = id }
    IN  IF hits = {} THEN 0 ELSE CHOOSE i \in hits : \A j \in hits : i <= j

\* One updater applied to the previous list.
Apply(prev, u) ==
    CASE u.op = "append" -> Append(prev, u.block)
      [] u.op = "insert" -> SubSeq(prev, 1, IF u.index <= Len(prev) THEN u.index ELSE Len(prev))
                            \o <<u.block>>
                            \o SubSeq(prev, u.index + 1, Len(prev))
      [] u.op = "map"    -> [i \in 1..Len(prev) |->
                                IF prev[i].id = u.id
                                THEN [prev[i] EXCEPT !.content = u.content]
                                ELSE prev[i]]
      [] u.op = "filter" -> SelectSeq(prev, LAMBDA b : b.id # u.id)

RECURSIVE ApplyAll(_, _)
ApplyAll(prev, us) ==
    IF us = <<>> THEN prev ELSE ApplyAll(Apply(prev, Head(us)), Tail(us))

\* const { blocks: savedBlocks } = JSON.parse(saved);
\* savedBlocks || [{ id: '1', type: 'text', content: '' }]: the default is for
\* an entry without blocks; an array, empty or not, is truthy.
OrDefault(parsed) ==
    IF Has(parsed, "blocks") THEN parsed.blocks ELSE DefaultBlocks

\* The kinds of block the Add buttons are pressed for: one with a text area
\* and the page break, whose delete button is always there.
EditorTypes == {"text", "pagebreak"}

EditorInit ==
    /\ blocks = DefaultBlocks
    /\ rendered = DefaultBlocks
    /\ queue = <<>>
    /\ saved = [kind |-> "none"]
    /\ now = Clock0
    /\ structure = <<>>
    /\ ScanIdle
    /\ WordsIdle
    /\ RebuildIdle
    /\ OutlineIdle
    /\ FontsIdle

\* Room for one more handler before the next render.
CanHandle == Len(queue) < MaxPending

addBlock(type, insertAfter) ==
    LET newBlock == [id |-> ToString(now), type |-> type, content |-> DefaultContent(type)]
        insertIndex == findIndex(rendered, insertAfter)
    IN  IF insertAfter # "" /\ insertIndex # 0
        THEN Append(queue, [op |-> "insert", index |-> insertIndex, block |-> newBlock])
        ELSE Append(queue, [op |-> "append", block |-> newBlock])

AddBlock ==
    /\ CanHandle
    /\ Len(rendered) + Len(queue) < MaxEditorBlocks
    /\ \E type \in EditorTypes, insertAfter \in {""} \cup { rendered[i].id : i \in 1..Len(rendered) } :
          queue' = addBlock(type, insertAfter)
    /\ UNCHANGED <<blocks, rendered, saved, now, structure,
                   scanVars, wordVars, earlier, outlineVars, fontVars>>

UpdateBlock ==
    /\ CanHandle
    /\ \E i \in 1..Len(rendered) :
          /\ rendered[i].type # "pagebreak"
          /\ queue' = Append(queue, [op |-> "map", id |-> rendered[i].id,
                                     content |-> "typed"])
    /\ UNCHANGED <<blocks, rendered, saved, now, structure,
                   scanVars, wordVars, earlier, outlineVars, fontVars>>

\* if (blocks.length > 1) setBlocks(prev => prev.filter(...)): the length
\* is that of the list the handler was created with.
deleteBlock(id) ==
    IF Len(rendered) > 1 THEN Append(queue, [op |-> "filter", id |-> id]) ELSE queue

DeleteBlock ==
    /\ CanHandle
    /\ \E i \in 1..Len(rendered) :
          /\ rendered[i].type = "pagebreak" \/ Len(rendered) > 1
          /\ queue' = deleteBlock(rendered[i].id)
    /\ UNCHANGED <<blocks, rendered, saved, now, structure,
                   scanVars, wordVars, earlier, outlineVars, fontVars>>

\* The render that applies the waiting updaters.
Render ==
    /\ queue # <<>>
    /\ blocks' = ApplyAll(blocks, queue)
    /\ rendered' = blocks'
    /\ queue' = <<>>
    /\ UNCHANGED <<saved, now, structure,
                   scanVars, wordVars, earlier, outlineVars, fontVars>>

\* The 30-second interval, created by the effect of the latest render.
AutoSave ==
    /\ saved' = [kind |-> "saved", data |-> [blocks |-> rendered]]
    /\ saved' # saved
    /\ UNCHANGED <<blocks, rendered, queue, now, structure,
                   scanVars, wordVars, earlier, outlineVars, fontVars>>

\* The page is opened again: state starts from the default and the load
\* effect replaces it by what storage holds.
Reopen ==
    /\ saved.kind = "saved"
    /\ blocks' = OrDefault(saved.data)
    /\ rendered' = blocks'
    /\ queue' = <<>>
    /\ UNCHANGED <<saved, now, structure,
                   scanVars, wordVars, earlier, outlineVars, fontVars>>

Tick ==
    /\ now < Clock0 + MaxTicks
    /\ now' = now + 1
    /\ UNCHANGED <<blocks, rendered, queue, saved, structure,
                   scanVars, wordVars, earlier, outlineVars, fontVars>>

EditorNext ==
    \/ AddBlock
    \/ UpdateBlock
    \/ DeleteBlock
    \/ Render
    \/ AutoSave
    \/ Reopen
    \/ Tick

SpecEditor == EditorInit /\ [][EditorNext]_vars

(***************************************************************************)
(* Loading a Google font (Settings).  Every call of loadGoogleFont that    *)
(* gets past its guard inserts a link element, arms a 10-second timer and  *)
(* leaves three callbacks behind: the timer's, the link's onload (which    *)
(* arms the 500 ms timer of the font test) and the link's onerror.  The    *)
(* network decides which of them run and in which order.                   *)
(***************************************************************************)
FontNames == { <<" ">>, <<"A">>, <<"B">> }

Report(a, outcome) == [attempts[a] EXCEPT !.outcomes = Append(@, outcome)]

\* clearTimeout(timeout): a timer that has fired stays fired.
clearTimeout(timer) == IF timer = "armed" THEN "cleared" ELSE timer

\* existingLink.remove(): the link of an earlier attempt leaves the document.
RemoveLinks == [a \in 1..Len(attempts) |->
                   IF attempts[a].link = "loading"
                   THEN [attempts[a] EXCEPT !.link = "removed"]
                   ELSE attempts[a]]

FontsInit ==
    /\ attempts = <<>>
    /\ isLoading = FALSE
    /\ font = [current |-> <<>>, stored |-> [kind |-> "none"]]
    /\ blocks = <<>>
    /\ structure = <<>>
    /\ ScanIdle
    /\ WordsIdle
    /\ RebuildIdle
    /\ OutlineIdle
    /\ EditorIdle

\* The Apply button and the font buttons are disabled while isLoading.
LoadGoogleFont ==
    /\ ~isLoading
    /\ Len(attempts) < MaxAttempts
    /\ \E fontName \in FontNames :
          IF trim(fontName) = <<>>
          THEN UNCHANGED <<attempts, isLoading>>
          ELSE /\ isLoading' = TRUE
               /\ attempts' = Append(RemoveLinks,
                                     [font |-> fontName, link |-> "loading",
                                      timer |-> "armed", test |-> "none",
                                      outcomes |-> <<>>])
    /\ UNCHANGED <<font, blocks, structure, scanVars, wordVars, earlier,
                   outlineVars, editorVars>>

\* The callback of setTimeout(..., 10000).
TimeoutFires ==
    /\ \E a \in 1..Len(attempts) :
          /\ attempts[a].timer = "armed"
          /\ attempts' = [attempts EXCEPT
                             ![a] = [Report(a, "timeout") EXCEPT !.timer = "fired"]]
    /\ isLoading' = FALSE
    /\ UNCHANGED <<font, blocks, structure, scanVars, wordVars, earlier,
                   outlineVars, editorVars>>

\* link.onload: the style sheet arrived, however late.
LinkOnload ==
    /\ \E a \in 1..Len(attempts) :
          /\ attempts[a].link = "loading"
          /\ attempts' = [attempts EXCEPT
                             ![a] = [@ EXCEPT !.link = "loaded",
                                              !.timer = clearTimeout(@),
                                              !.test = "pending"]]
    /\ UNCHANGED <<isLoading, font, blocks, structure, scanVars, wordVars, earlier,
                   outlineVars, editorVars>>

\* The callback of setTimeout(..., 500) inside onload.
FontTested ==
    /\ \E a \in 1..Len(attempts), fontLoaded \in BOOLEAN :
          /\ attempts[a].test = "pending"
          /\ IF fontLoaded
             THEN /\ font' = [current |-> attempts[a].font,
                              stored |-> [kind |-> "font", name |-> attempts[a].font]]
                  /\ attempts' = [attempts EXCEPT
                                     ![a] = [Report(a, "applied") EXCEPT !.test = "done"]]
             ELSE /\ font' = font
                  /\ attempts' = [attempts EXCEPT
                                     ![a] = [Report(a, "not available")
                                                EXCEPT !.test = "done"]]
    /\ isLoading' = FALSE
    /\ UNCHANGED <<blocks, structure, scanVars, wordVars, earlier,
                   outlineVars, editorVars>>

\* link.onerror.
LinkOnerror ==
    /\ \E a \in 1..Len(attempts) :
          /\ attempts[a].link = "loading"
          /\ attempts' = [attempts EXCEPT
                             ![a] = [Report(a, "not found")
                                        EXCEPT !.link = "failed",
                                               !.timer = clearTimeout(@)]]
    /\ isLoading' = FALSE
    /\ UNCHANGED <<font, blocks, structure, scanVars, wordVars, earlier,
                   outlineVars, editorVars>>

FontsNext ==
    \/ LoadGoogleFont
    \/ TimeoutFires
    \/ LinkOnload
    \/ FontTested
    \/ LinkOnerror

SpecFonts == FontsInit /\ [][FontsNext]_vars

(***************************************************************************)
(* Properties of the builder.                                              *)
(***************************************************************************)
RECURSIVE SumWordCount(_)
SumWordCount(nodes) ==
    IF nodes = <<>> THEN 0 ELSE Head(nodes).wordCount + SumWordCount(Tail(nodes))

SectionAggregates(n) == n.wordCount = SumWordCount(n.textBlocks)

ChapterAggregates(n) ==
    /\ n.wordCount = SumWordCount(n.textBlocks) + SumWordCount(n.sections)
    /\ \A j \in 1..Len(n.sections) : SectionAggregates(n.sections[j])

\* C1: in the returned forest every chapter's wordCount is the sum of the
\* wordCounts of its direct text nodes plus that of its section nodes, and
\* every section's wordCount, nested or top-level, is the sum of the
\* wordCounts of its direct text nodes.
C1_Aggregation ==
    returned =>
        \A i \in 1..Len(structure) :
            /\ structure[i].type = "chapter" => ChapterAggregates(structure[i])
            /\ structure[i].type = "section" => SectionAggregates(structure[i])

\* A returned forest with a chapter that counts words both of a direct text
\* and of a text under one of its sections.
C1_Witness ==
    /\ returned
    /\ \E i \in 1..Len(structure) :
          /\ structure[i].type = "chapter"
          /\ SumWordCount(structure[i].textBlocks) > 0
          /\ SumWordCount(structure[i].sections) > 0

\* The nodes of a forest in reading order: a node, then its direct texts,
\* then its sections (each followed by its own texts).  In the input the
\* direct texts of a chapter lie before its first section.
RECURSIVE Flatten(_)
Flatten(nodes) ==
    IF nodes = <<>> THEN <<>>
    ELSE LET n == Head(nodes)
         IN  <<n>> \o Flatten(ListOf(n, "textBlocks")) \o Flatten(ListOf(n, "sections"))
                   \o Flatten(Tail(nodes))

AsBlock(n) == [id |-> n.id, type |-> n.type, content |-> n.content]

AsBlocks(nodes) == [i \in 1..Len(nodes) |-> AsBlock(nodes[i])]

Emits(block) == block.type \in {"text", "chapter", "section"}

IsChapter(x) == x.type = "chapter"

IsPagebreak(block) == block.type = "pagebreak"

NotPagebreak(block) == block.type # "pagebreak"

\* C2: the builder preserves input order.  The chapters of the top-level
\* list are the chapter blocks in input order, and reading the forest node
\* by node (a chapter, its texts, its sections with their texts) gives the
\* text, chapter and section blocks in input order: no list is re-ordered.
C2_OrderPreserved ==
    returned =>
        /\ AsBlocks(SelectSeq(structure, IsChapter)) = SelectSeq(blocks, IsChapter)
        /\ AsBlocks(Flatten(structure)) = SelectSeq(blocks, Emits)

\* A returned forest whose lists hold different nodes: two unlike texts in
\* one text list, or two unlike sections in one chapter.
C2_Witness ==
    /\ returned
    /\ \E i \in 1..Len(structure) :
          LET t == ListOf(structure[i], "textBlocks")
              c == ListOf(structure[i], "sections")
          IN  \/ Len(t) >= 2 /\ t[1] # t[2]
              \/ Len(c) >= 2 /\ c[1].id # c[2].id

PagebreakIds == { blocks[k].id : k \in { k \in 1..Len(blocks) : IsPagebreak(blocks[k]) } }

EmittingIds == { blocks[k].id : k \in { k \in 1..Len(blocks) : Emits(blocks[k]) } }

IdsUnique == \A j, k \in 1..Len(blocks) : blocks[j].id = blocks[k].id => j = k

\* C3 as stated: no node of the returned forest has kind pagebreak or
\* carries the id of a pagebreak block.
C3_NoPagebreakKindOrId ==
    returned =>
        LET f == Flatten(structure)
        IN  \A i \in 1..Len(f) : f[i].type # "pagebreak" /\ f[i].id \notin PagebreakIds

\* C3, amended: no node of the returned forest has kind pagebreak, and every
\* node carries the id of a text, chapter or section block: a node has the
\* id of a pagebreak block only when such a block shares that id, and never
\* when the ids of the input are pairwise distinct.
C3_NoPagebreakNode ==
    returned =>
        LET f == Flatten(structure)
        IN  \A i \in 1..Len(f) :
               /\ f[i].type # "pagebreak"
               /\ f[i].id \in EmittingIds
               /\ IdsUnique => f[i].id \notin PagebreakIds

\* A returned forest with a node, built from an input with a pagebreak whose
\* id no other block has.
C3_Witness ==
    /\ returned
    /\ structure # <<>>
    /\ PagebreakIds \ EmittingIds # {}

\* C4: the forest built from a block list is the forest built from the list
\* with all its pagebreak blocks deleted.
C4_PagebreakTransparent ==
    returned => structure = getOutlineStructure(SelectSeq(blocks, NotPagebreak))

\* A chapter, a text, a pagebreak and a text: both texts are in the chapter's
\* one text list.
C4_Witness ==
    /\ returned
    /\ Len(blocks) = 4
    /\ blocks[1].type = "chapter" /\ blocks[2].type = "text"
    /\ blocks[3].type = "pagebreak" /\ blocks[4].type = "text"
    /\ Len(structure) = 1
    /\ Len(structure[1].textBlocks) = 2

(***************************************************************************)
(* Attachment, read off the placement history: placed[k] is the path of    *)
(* the node the visit of blocks[k] pushed, or null.                        *)
(***************************************************************************)
\* Index of the last block of the given type before position k; 0 if none.
LastBefore(k, type) ==
    LET before == { j \in 1..(k - 1) : blocks[j].type = type }
    IN  IF before = {} THEN 0 ELSE CHOOSE j \in before : \A i \in before : i <= j

Parent(p) == SubSeq(p, 1, Len(p) - 1)

InList(p) == p[Len(p)].list

TopLevel(p) == Len(p) = 1

\* The visit of blocks[k] pushed a node that carries the block's fields.
Kept(k) ==
    /\ placed[k] # null
    /\ AsBlock(NodeAt(structure, placed[k])) = blocks[k]

\* The node of blocks[k] lies in the given list of the node of blocks[j].
ChildOf(k, j, list) ==
    /\ placed[k] # null
    /\ placed[j] # null
    /\ Parent(placed[k]) = placed[j]
    /\ InList(placed[k]) = list

\* C5: a section or text block with no chapter before it is not dropped: a
\* section becomes a top-level node; a text becomes a top-level node when no
\* section precedes it, and otherwise a direct text of the top-level section
\* last seen before it.
C5_OrphansKept ==
    returned =>
        \A k \in 1..Len(blocks) :
            LastBefore(k, "chapter") = 0 =>
                /\ blocks[k].type = "section" => Kept(k) /\ TopLevel(placed[k])
                /\ blocks[k].type = "text" =>
                      /\ Kept(k)
                      /\ LET j == LastBefore(k, "section")
                         IN  IF j = 0 THEN TopLevel(placed[k])
                             ELSE TopLevel(placed[j]) /\ ChildOf(k, j, "textBlocks")

\* An input without chapters that begins with a text and goes on with a
\* section and a text under it.
C5_Witness ==
    /\ returned
    /\ Len(blocks) >= 3
    /\ LastBefore(Len(blocks) + 1, "chapter") = 0
    /\ blocks[1].type = "text"
    /\ \E k \in 3..Len(blocks) :
          /\ blocks[k].type = "text"
          /\ LastBefore(k, "section") > 0
    /\ Len(structure) >= 2

\* C6 as stated: a text block is attached to the nearest section block that
\* precedes it in the input; with no section before it, to the nearest
\* chapter before it; with neither, it is a top-level node.
C6_TextToNearestSection ==
    returned =>
        \A k \in 1..Len(blocks) :
            blocks[k].type = "text" =>
                LET j == LastBefore(k, "section")
                    c == LastBefore(k, "chapter")
                IN  IF j > 0 THEN ChildOf(k, j, "textBlocks")
                    ELSE IF c > 0 THEN ChildOf(k, c, "textBlocks")
                    ELSE placed[k] # null /\ TopLevel(placed[k])

\* C6, amended: a text block is attached to the nearest section block before
\* it when no chapter block lies between that section and the text; failing
\* that, to the nearest chapter block before it; with neither a section nor
\* a chapter before it, it is a top-level node.
C6_TextToOpenSection ==
    returned =>
        \A k \in 1..Len(blocks) :
            blocks[k].type = "text" =>
                LET j == LastBefore(k, "section")
                    c == LastBefore(k, "chapter")
                IN  IF j > c THEN ChildOf(k, j, "textBlocks")
                    ELSE IF c > 0 THEN ChildOf(k, c, "textBlocks")
                    ELSE placed[k] # null /\ TopLevel(placed[k])

\* A section, later a chapter, later a text: the text is a direct text of
\* the chapter.
C6_Witness ==
    /\ returned
    /\ \E k \in 1..Len(blocks) :
          /\ blocks[k].type = "text"
          /\ LastBefore(k, "section") > 0
          /\ LastBefore(k, "chapter") > LastBefore(k, "section")
          /\ ChildOf(k, LastBefore(k, "chapter"), "textBlocks")

\* C7: a section block is appended to the sections of the nearest chapter
\* block before it, or to the top-level list when no chapter precedes it,
\* and either way the visit leaves it as the current section.
C7_SectionPlacement ==
    /\ \A k \in 1..Len(placed) :
          blocks[k].type = "section" =>
              LET c == LastBefore(k, "chapter")
              IN  /\ Kept(k)
                  /\ IF c > 0 THEN ChildOf(k, c, "sections") ELSE TopLevel(placed[k])
    /\ (pos > 1 /\ blocks[pos - 1].type = "section") =>
          /\ currentSection = placed[pos - 1]
          /\ currentSection # null
          /\ NodeAt(structure, currentSection).textBlocks = <<>>

\* Both cases in one run: a section ahead of any chapter, and a section
\* after a chapter that was just visited and is the current section.
C7_Witness ==
    /\ pos > 3
    /\ blocks[1].type = "section"
    /\ blocks[pos - 1].type = "section"
    /\ LastBefore(pos - 1, "chapter") > 1
    /\ Len(currentSection) = 2

\* Number of entries of a sequence that carry the given id.
CountId(seq, id) == Cardinality({ i \in 1..Len(seq) : seq[i].id = id })

\* C8: one node per text, chapter or section block, also among blocks that
\* share an id: the forest has as many nodes as the input has such blocks,
\* in total and for each id.
C8_OneNodePerBlock ==
    returned =>
        LET f == Flatten(structure)
            e == SelectSeq(blocks, Emits)
        IN  /\ Len(f) = Len(e)
            /\ \A id \in Ids : CountId(f, id) = CountId(e, id)

\* A returned forest with two chapters of one id, and a text of that id too.
C8_Witness ==
    /\ returned
    /\ \E i, j \in 1..Len(structure) :
          /\ i < j
          /\ structure[i].type = "chapter"
          /\ structure[j].type = "chapter"
          /\ structure[i].id = structure[j].id
          /\ \E t \in 1..Len(structure[j].textBlocks) :
                structure[j].textBlocks[t].id = structure[j].id

IsList(x) == DOMAIN x = 1..Len(x)

\* C9: the builder is total.  For every input, be it empty or with blocks of
\* empty content or of equal ids, the scan has not raised and its next visit
\* does not raise, it has visited exactly the blocks before pos (so it ends
\* after Len(blocks) visits), and what it returns once all are visited is a
\* list, which is empty when the input is.
C9_Total ==
    /\ ~thrown
    /\ pos = Len(placed) + 1
    /\ pos <= Len(blocks) + 1
    /\ pos <= Len(blocks) => ~returned /\ ~Throws(scan, blocks[pos])
    /\ returned =>
          /\ IsList(structure)
          /\ blocks = <<>> => structure = <<>>

\* The builder has returned for an input with a text of empty content under
\* a chapter and two blocks of one id.
C9_Witness ==
    /\ returned
    /\ ~IdsUnique
    /\ \E k \in 2..Len(blocks) :
          /\ blocks[k].type = "text"
          /\ blocks[k].content = <<>>
          /\ blocks[k - 1].type = "chapter"

Unknown(block) == block.type \notin KnownTypes

RemoveAt(seq, k) == SubSeq(seq, 1, k - 1) \o SubSeq(seq, k + 1, Len(seq))

\* C10: a block of a kind other than text, chapter, section and pagebreak is
\* skipped: its visit pushes no node and leaves the forest and both cursors
\* as they were, and the forest returned is the one built from the input
\* without that block.
C10_UnknownSkipped ==
    /\ \A k \in 1..Len(placed) : Unknown(blocks[k]) => placed[k] = null
    /\ (pos > 1 /\ Unknown(blocks[pos - 1])) =>
          scan = ScanFrom(InitialScan, SubSeq(blocks, 1, pos - 2), 1)
    /\ returned =>
          \A k \in 1..Len(blocks) :
              Unknown(blocks[k]) => structure = getOutlineStructure(RemoveAt(blocks, k))

\* A block of unknown kind between a section and a text, all visited, with
\* the text under the section.
C10_Witness ==
    /\ returned
    /\ \E k \in 2..(Len(blocks) - 1) :
          /\ Unknown(blocks[k])
          /\ blocks[k - 1].type = "section"
          /\ blocks[k + 1].type = "text"
          /\ ChildOf(k + 1, k - 1, "textBlocks")

\* The closure state the scan had before its latest visit.
BeforeLastVisit == ScanFrom(InitialScan, SubSeq(blocks, 1, pos - 2), 1)

\* C20: a chapter block starts a new top-level chapter node, last in the
\* list, with empty sections, empty direct text and wordCount 0, makes it
\* the current chapter and clears the current section.  A text block that
\* follows a chapter with no section block in between, whatever came before
\* the chapter, is pushed to that chapter's direct text and its words are
\* added to that chapter and to nothing else.
C20_ChapterStartsAfresh ==
    /\ (pos > 1 /\ blocks[pos - 1].type = "chapter") =>
          /\ structure = Append(BeforeLastVisit.structure,
                                [id |-> blocks[pos - 1].id, type |-> "chapter",
                                 content |-> blocks[pos - 1].content,
                                 sections |-> <<>>, textBlocks |-> <<>>,
                                 wordCount |-> 0])
          /\ placed[pos - 1] = <<At("structure", Len(structure))>>
          /\ currentChapter = placed[pos - 1]
          /\ currentSection = null
    /\ (pos > 1 /\ blocks[pos - 1].type = "text") =>
          LET k == pos - 1
              c == LastBefore(k, "chapter")
              old == BeforeLastVisit.structure
          IN  (c > 0 /\ LastBefore(k, "section") < c) =>
                 /\ ChildOf(k, c, "textBlocks")
                 /\ LET i == placed[c][1].index
                        word == getWordCount(blocks[k].content)
                    IN  /\ structure[i].wordCount = old[i].wordCount + word
                        /\ structure[i].sections = old[i].sections
                        /\ structure[i].textBlocks =
                              Append(old[i].textBlocks,
                                     [id |-> blocks[k].id, type |-> "text",
                                      content |-> blocks[k].content,
                                      wordCount |-> word])
                        /\ \A j \in 1..Len(structure) : j # i => structure[j] = old[j]

\* A section with a text, then a chapter, then a text with words: the last
\* visit put the text under the chapter and the section's count is as it was.
C20_Witness ==
    /\ pos = 5
    /\ blocks[1].type = "section"
    /\ blocks[2].type = "text"
    /\ blocks[3].type = "chapter"
    /\ blocks[4].type = "text"
    /\ blocks[4].content # <<>>
    /\ structure[2].wordCount > 0
    /\ structure[2].textBlocks # <<>>
    /\ Len(structure[1].textBlocks) = 1

(***************************************************************************)
(* Properties of the word count.                                           *)
(***************************************************************************)
\* Number of maximal runs of non-whitespace characters: the positions where
\* such a run begins.
Runs(s) ==
    Cardinality({ i \in 1..Len(s) : ~IsSpace(s[i]) /\ (i = 1 \/ IsSpace(s[i - 1])) })

RECURSIVE DoubleSpaces(_)
DoubleSpaces(s) ==
    IF s = <<>> THEN <<>>
    ELSE IF IsSpace(Head(s)) THEN <<Head(s), Head(s)>> \o DoubleSpaces(Tail(s))
    ELSE <<Head(s)>> \o DoubleSpaces(Tail(s))

\* C12: the wordCount of a text node is the number of maximal runs of
\* non-whitespace characters of the content: 0 for content that is empty or
\* all whitespace, and the same with whitespace added in front or behind or
\* with every whitespace character doubled.
C12_WordCount ==
    counted # <<>> =>
        /\ counted[1] = Runs(countInput)
        /\ (\A i \in 1..Len(countInput) : IsSpace(countInput[i])) => counted[1] = 0
        /\ getWordCount(<<" ", "\n">> \o countInput \o <<"\n", " ">>) = counted[1]
        /\ getWordCount(DoubleSpaces(countInput)) = counted[1]

\* Content of whitespace only has been counted as 0 words.
C12_Witness ==
    /\ countInput = <<" ", "\n">>
    /\ counted = <<0>>

(***************************************************************************)
(* Properties of repeated builds.                                          *)
(***************************************************************************)
\* C11: a call of the builder on the same blocks returns a forest deep-equal
\* to the one every earlier call returned; no step of a build changes the
\* block list, and none changes a forest an earlier call returned.
C11_Repeatable ==
    /\ [](returned => \A i \in 1..Len(earlier) : structure = earlier[i])
    /\ [][/\ blocks' = blocks
          /\ Len(earlier') >= Len(earlier)
          /\ \A i \in 1..Len(earlier) : earlier'[i] = earlier[i]]_vars

\* A second call has returned a forest with a chapter that holds a section
\* and a text.
C11_Witness ==
    /\ returned
    /\ earlier # <<>>
    /\ Len(structure) = 1
    /\ structure[1].type = "chapter"
    /\ Len(structure[1].sections) = 1
    /\ Len(structure[1].textBlocks) = 1

(***************************************************************************)
(* Properties of the outline component.                                   *)
(***************************************************************************)
RECURSIVE PathsIn(_, _, _)
PathsIn(list, name, parent) ==
    UNION { LET p == parent \o <<At(name, i)>>
            IN  {p} \cup PathsIn(ListOf(list[i], "sections"), "sections", p)
                    \cup PathsIn(ListOf(list[i], "textBlocks"), "textBlocks", p)
            : i \in 1..Len(list) }

Ancestors(p) == { SubSeq(p, 1, n) : n \in 1..(Len(p) - 1) }

ShownPaths(v) == { v.rows[r].path : r \in 1..Len(v.rows) }

Collapsed(p) == NodeAt(structure, p).id \in collapsedBlocks.elems

\* C13: while the outline is on display, a node of the forest has a row
\* exactly when no ancestor of it has its id in the collapse set, so the
\* children of a node are hidden exactly when its id is in the set and every
\* top-level node has a row; every row is the row of a node of the forest
\* and no node has two rows.
C13_HiddenIffCollapsed ==
    view.kind = "outline" =>
        /\ \A p \in PathsIn(structure, "structure", <<>>) :
              (p \in ShownPaths(view)) <=> (\A a \in Ancestors(p) : ~Collapsed(a))
        /\ \A i \in 1..Len(structure) : <<At("structure", i)>> \in ShownPaths(view)
        /\ \A r \in 1..Len(view.rows) :
              /\ view.rows[r].path \in PathsIn(structure, "structure", <<>>)
              /\ view.rows[r].id = NodeAt(structure, view.rows[r].path).id
              /\ view.rows[r].isCollapsed = Collapsed(view.rows[r].path)
              /\ \A q \in 1..Len(view.rows) :
                    view.rows[q].path = view.rows[r].path => q = r

\* A chapter was collapsed by its toggle: its open section and the text block
\* of that section are both hidden, the text block by its grandparent alone.
C13_Witness ==
    /\ view.kind = "outline"
    /\ event.target = "toggle"
    /\ \E p \in PathsIn(structure, "structure", <<>>) :
          /\ Len(p) = 3
          /\ ~Collapsed(Parent(p))
          /\ Collapsed(Parent(Parent(p)))
          /\ p \notin ShownPaths(view)
          /\ Parent(p) \notin ShownPaths(view)
          /\ Parent(Parent(p)) \in ShownPaths(view)

\* C14: a click on the row of a rendered node makes exactly one callback
\* call, navigate with the id of that node, and no toggleCollapse call,
\* whether or not the id is in the collapse set.
C14_RowNavigates ==
    event.target = "row" =>
        /\ calls = <<Call("navigate", event.id)>>
        /\ \A c \in 1..Len(calls) : calls[c].fn # "toggleCollapse"
        /\ view.kind = "outline"
        /\ event.path \in ShownPaths(view)
        /\ NodeAt(structure, event.path).id = event.id

\* The row of a collapsed chapter that has children was clicked.
C14_Witness ==
    /\ event.target = "row"
    /\ event.isCollapsed
    /\ event.id \in collapsedBlocks.elems
    /\ NodeAt(structure, event.path).type = "chapter"
    /\ Len(NodeAt(structure, event.path).sections) > 0
    /\ calls = <<Call("navigate", event.id)>>

\* C15: a click on the toggle of a node makes exactly one callback call,
\* toggleCollapse with the id of that node, and no navigate call.
C15_ToggleOnly ==
    event.target = "toggle" =>
        /\ calls = <<Call("toggleCollapse", event.id)>>
        /\ \A c \in 1..Len(calls) : calls[c].fn # "navigate"
        /\ NodeAt(structure, event.path).id = event.id

\* The toggle of an open section inside a chapter was clicked.
C15_Witness ==
    /\ event.target = "toggle"
    /\ ~event.isCollapsed
    /\ Len(event.path) = 2
    /\ NodeAt(structure, event.path).type = "section"
    /\ calls = <<Call("toggleCollapse", event.id)>>

\* C16: no step of the outline changes the block list, and a step changes
\* the collapse set only as the host's answer to the toggleCollapse calls
\* made in that step: a row click, the minimize and show buttons and the
\* renders that follow them leave the set as it was.
C16_RendererFrame ==
    [][/\ blocks' = blocks
       /\ collapsedBlocks' = HostResponse(collapsedBlocks, calls')
       /\ event'.target # "toggle" => collapsedBlocks' = collapsedBlocks
       /\ event'.target = "toggle" =>
             collapsedBlocks'.elems \in { collapsedBlocks.elems \cup {event'.id},
                                          collapsedBlocks.elems \ {event'.id} }]_vars

\* A row click on a collapsed node left it collapsed.
C16_Witness ==
    /\ event.target = "row"
    /\ event.isCollapsed
    /\ event.id \in collapsedBlocks.elems
    /\ view.kind = "outline"
    /\ \E r \in 1..Len(view.rows) : view.rows[r].toggle /\ view.rows[r].isCollapsed

ShownNodes(v) == IF v.kind = "outline" THEN ShownPaths(v) ELSE {}

C18_MissingSetAsEmpty ==
    collapsedBlocks = undefined =>
        /\ view.kind # "error"
        /\ view = DocumentOutline(blocks, SetOf({}), isMinimized).view

RowCounts(v) == { <<v.rows[r].path, v.rows[r].wordCount>> : r \in 1..Len(v.rows) }

\* C19: the forest of every render is the forest of the first render and of
\* the block list, every row shows the word count of its node in that
\* forest, the displayed total is that of the first render, and whenever the
\* collapse set is again the set of the first render the rows are the rows
\* of the first render.
C19_HidesNotDeletes ==
    /\ structure = first.structure
    /\ structure = getOutlineStructure(blocks)
    /\ view.kind = "outline" =>
          /\ view.totalWords = first.view.totalWords
          /\ view.totalWords = SumWordCount(first.structure)
          /\ \A r \in 1..Len(view.rows) :
                view.rows[r].wordCount = NodeAt(first.structure, view.rows[r].path).wordCount
          /\ collapsedBlocks = first.collapsedBlocks => view.rows = first.view.rows

\* A node with words below it was collapsed and opened again: the set and
\* the rows are those of the first render.
C19_Witness ==
    /\ view.kind = "outline"
    /\ event.target = "toggle"
    /\ event.isCollapsed
    /\ event.id \notin collapsedBlocks.elems
    /\ collapsedBlocks = first.collapsedBlocks
    /\ view.rows = first.view.rows
    /\ \E r \in 1..Len(view.rows) : Len(view.rows[r].path) = 2 /\ view.rows[r].wordCount > 0
    /\ view.totalWords > 0

\* The title without the white space at its two ends, by position.
Stripped(content) ==
    LET inked == { i \in 1..Len(content) : ~IsSpace(content[i]) }
    IN  IF inked = {} THEN <<>>
        ELSE SubSeq(content, CHOOSE i \in inked : \A j \in inked : i <= j,
                             CHOOSE i \in inked : \A j \in inked : i >= j)

FullLabel(node) ==
    IF Stripped(node.content) = <<>> THEN Untitled(node.type) ELSE Stripped(node.content)

\* C24: the tooltip of every row is the trimmed title of its node, or
\* "Untitled " and the kind when that is empty; the label shown is the
\* tooltip when it has at most 30 characters and its first 30 characters
\* followed by "..." when it has more.
C24_Label ==
    view.kind = "outline" =>
        \A r \in 1..Len(view.rows) :
            LET row == view.rows[r]
                full == FullLabel(NodeAt(structure, row.path))
            IN  /\ row.title = full
                /\ Len(full) <= 30 => row.label = full
                /\ Len(full) > 30 =>
                      /\ Len(row.label) = 33
                      /\ SubSeq(row.label, 1, 30) = SubSeq(full, 1, 30)
                      /\ SubSeq(row.label, 31, 33) = <<".", ".", ".">>

\* A title of 31 characters with a blank before it: cut to its first 30
\* characters and the marker, whole in the tooltip.
C24_Witness ==
    /\ view.kind = "outline"
    /\ Len(view.rows) = 1
    /\ Len(view.rows[1].title) = 31
    /\ blocks[1].content[1] = " "
    /\ view.rows[1].title[1] = "1"
    /\ Len(view.rows[1].label) = 33
    /\ view.rows[1].label[30] = "0"

RECURSIVE Before(_, _)
\* p comes before q in the order: a node, its sections, its text blocks.
Before(p, q) ==
    IF p = <<>> THEN q # <<>>
    ELSE IF q = <<>> THEN FALSE
    ELSE IF Head(p) = Head(q) THEN Before(Tail(p), Tail(q))
    ELSE IF Head(p).list = Head(q).list THEN Head(p).index < Head(q).index
    ELSE Head(p).list = "sections" /\ Head(q).list = "textBlocks"

ChildPaths(p) ==
    LET n == NodeAt(structure, p)
    IN  { p \o <<At("sections", j)>> : j \in 1..Len(ListOf(n, "sections")) }
        \cup { p \o <<At("textBlocks", j)>> : j \in 1..Len(ListOf(n, "textBlocks")) }

\* C21: the rows come in the order top-level nodes in forest order, each
\* followed by the rows of its sections in list order and then those of its
\* direct text nodes in list order; the depth of a row is the depth of its
\* node, 0 at top level and one more than the parent below; and every child
\* of an expanded node on display has a row.
C21_RenderOrder ==
    view.kind = "outline" =>
        /\ \A r \in 1..Len(view.rows) :
              /\ view.rows[r].level = Len(view.rows[r].path) - 1
              /\ \A q \in 1..(r - 1) : Before(view.rows[q].path, view.rows[r].path)
              /\ ~view.rows[r].isCollapsed =>
                    ChildPaths(view.rows[r].path) \subseteq ShownPaths(view)
        /\ \A i \in 1..Len(structure) :
              \E r \in 1..Len(view.rows) :
                  view.rows[r].path = <<At("structure", i)>> /\ view.rows[r].level = 0

\* A chapter whose text block came before its section in the document: the
\* section's row comes first, both at depth 1.
C21_Witness ==
    /\ view.kind = "outline"
    /\ Len(blocks) = 3
    /\ blocks[2].type = "text"
    /\ Len(view.rows) = 3
    /\ view.rows[2].path = <<At("structure", 1), At("sections", 1)>>
    /\ view.rows[3].path = <<At("structure", 1), At("textBlocks", 1)>>
    /\ view.rows[2].level = 1
    /\ view.rows[3].level = 1

HasKids(n) == Len(ListOf(n, "sections")) > 0 \/ Len(ListOf(n, "textBlocks")) > 0

\* C22 as it is stated: toggleCollapse is never emitted with an id that a
\* text node or a node without children carries.
C22_NeverIdOfChildless ==
    event.target = "toggle" =>
        \A p \in PathsIn(structure, "structure", <<>>) :
            NodeAt(structure, p).id = event.id =>
                /\ NodeAt(structure, p).type # "text"
                /\ HasKids(NodeAt(structure, p))

\* C22: a row has a toggle exactly when its node has a section or a direct
\* text node, so never on a text node; toggleCollapse is emitted only from
\* the row of a node with children, with that node's id; and below the row
\* of a node without children there is no row, in the collapse set or not.
C22_ToggleOnlyWithChildren ==
    /\ view.kind = "outline" =>
          \A r \in 1..Len(view.rows) :
              LET n == NodeAt(structure, view.rows[r].path)
              IN  /\ view.rows[r].toggle <=> HasKids(n)
                  /\ n.type = "text" => ~view.rows[r].toggle
                  /\ ~HasKids(n) =>
                        \A q \in 1..Len(view.rows) :
                            view.rows[r].path \notin Ancestors(view.rows[q].path)
    /\ event.target = "toggle" =>
          /\ HasKids(NodeAt(structure, event.path))
          /\ NodeAt(structure, event.path).type # "text"
          /\ \A c \in 1..Len(calls) :
                calls[c].fn = "toggleCollapse" =>
                    calls[c].id = NodeAt(structure, event.path).id

\* A toggle was clicked while a chapter without children, its id in the
\* collapse set, and a text node are on display without a toggle.
C22_Witness ==
    /\ view.kind = "outline"
    /\ event.target = "toggle"
    /\ \E r \in 1..Len(view.rows) :
          /\ view.rows[r].type = "chapter"
          /\ view.rows[r].isCollapsed
          /\ ~view.rows[r].toggle
    /\ \E r \in 1..Len(view.rows) :
          view.rows[r].type = "text" /\ ~view.rows[r].toggle

Leaf(n) == ~Has(n, "sections") /\ ~Has(n, "textBlocks")

TextOnly(list) == \A k \in 1..Len(list) : list[k].type = "text" /\ Leaf(list[k])

SectionShape(n) ==
    /\ n.type = "section"
    /\ ~Has(n, "sections")
    /\ Has(n, "textBlocks")
    /\ TextOnly(n.textBlocks)

ChapterShape(n) ==
    /\ n.type = "chapter"
    /\ Has(n, "sections")
    /\ Has(n, "textBlocks")
    /\ \A j \in 1..Len(n.sections) : SectionShape(n.sections[j])
    /\ TextOnly(n.textBlocks)

\* C25: every top-level node of the built forest is a chapter, a section or
\* a text leaf; a chapter holds sections and text leaves, a section holds
\* text leaves only and has no sections, so chapters occur at top level
\* only, no node lies deeper than the third level and no row is rendered at
\* a depth above 2.
C25_FixedShape ==
    /\ \A i \in 1..Len(structure) :
          \/ ChapterShape(structure[i])
          \/ SectionShape(structure[i])
          \/ structure[i].type = "text" /\ Leaf(structure[i])
    /\ \A p \in PathsIn(structure, "structure", <<>>) :
          /\ Len(p) <= 3
          /\ NodeAt(structure, p).type = "chapter" => Len(p) = 1
          /\ NodeAt(structure, p).type = "section" =>
                \/ Len(p) = 1
                \/ /\ Len(p) = 2
                   /\ p[2].list = "sections"
                   /\ NodeAt(structure, Parent(p)).type = "chapter"
    /\ view.kind = "outline" =>
          \A r \in 1..Len(view.rows) : view.rows[r].level \in 0..2

\* Three levels on display: a text node at depth 2 in a section at depth 1.
C25_Witness ==
    /\ view.kind = "outline"
    /\ \E r \in 1..Len(view.rows) :
          /\ view.rows[r].level = 2
          /\ view.rows[r].type = "text"
          /\ NodeAt(structure, Parent(view.rows[r].path)).type = "section"
          /\ NodeAt(structure, Parent(Parent(view.rows[r].path))).type = "chapter"

RECURSIVE TextBlockWords(_)
TextBlockWords(bs) ==
    IF bs = <<>> THEN 0
    ELSE (IF Head(bs).type = "text" THEN getWordCount(Head(bs).content) ELSE 0)
         + TextBlockWords(Tail(bs))

\* C27: the total the outline shows, the sum of the wordCounts of the
\* top-level nodes, is the sum of the word counts of the text blocks of the
\* input, each counted once wherever its node is nested.
C27_TotalIsAllText ==
    view.kind = "outline" =>
        /\ view.totalWords = TextBlockWords(blocks)
        /\ view.totalWords = SumWordCount(structure)

\* A text block before the chapter and one inside it, two words each.
C27_Witness ==
    /\ view.kind = "outline"
    /\ Len(structure) = 2
    /\ structure[1].type = "text"
    /\ structure[2].type = "chapter"
    /\ Len(structure[2].textBlocks) = 1
    /\ view.totalWords = 4

(***************************************************************************)
(* More properties of the builder.                                         *)
(***************************************************************************)
\* C23: in the returned forest the node of every text, chapter or section
\* block carries that block's id, kind and content as it is, white space and
\* emptiness included, and every node of the forest is the node of exactly
\* one block.
C23_RawFields ==
    returned =>
        /\ \A k \in 1..Len(blocks) :
              IF Emits(blocks[k])
              THEN /\ placed[k] # null
                   /\ NodeAt(structure, placed[k]).id = blocks[k].id
                   /\ NodeAt(structure, placed[k]).type = blocks[k].type
                   /\ NodeAt(structure, placed[k]).content = blocks[k].content
              ELSE placed[k] = null
        /\ \A p \in PathsIn(structure, "structure", <<>>) :
              \E k \in 1..Len(blocks) :
                  /\ placed[k] = p
                  /\ \A j \in 1..Len(blocks) : placed[j] = p => j = k

\* A returned forest with a text node of empty content inside a section
\* whose title keeps its leading blank.
C23_Witness ==
    /\ returned
    /\ \E p \in PathsIn(structure, "structure", <<>>) :
          /\ NodeAt(structure, p).type = "text"
          /\ NodeAt(structure, p).content = <<>>
          /\ Len(p) > 1
          /\ NodeAt(structure, Parent(p)).type = "section"
          /\ NodeAt(structure, Parent(p)).content = <<" ", "T">>

\* C26: at every step of the scan, a section or text block visited after a
\* chapter block has its node below a top-level chapter, and in the
\* top-level list no chapter comes before a node that is not a chapter.
C26_NestedAfterChapter ==
    /\ \A k \in 1..Len(placed) :
          (/\ blocks[k].type \in {"section", "text"}
           /\ \E j \in 1..(k - 1) : blocks[j].type = "chapter")
          => /\ placed[k] # null
             /\ Len(placed[k]) >= 2
             /\ structure[placed[k][1].index].type = "chapter"
    /\ \A i, j \in 1..Len(structure) :
          (structure[i].type = "chapter" /\ structure[j].type # "chapter") => j < i

\* A returned forest: an orphan text, then a chapter holding a later text
\* and a later section.
C26_Witness ==
    /\ returned
    /\ Len(blocks) = 4
    /\ Len(structure) = 2
    /\ structure[1].type = "text"
    /\ structure[2].type = "chapter"
    /\ Len(structure[2].textBlocks) = 1
    /\ Len(structure[2].sections) = 1

\* C30: at every step of the scan, a current chapter is a top-level chapter
\* node with no chapter after it; a current section next to a current
\* chapter is the last element of that chapter's sections; a current
\* section with no current chapter is a top-level section node.
C30_Cursors ==
    /\ currentChapter # null =>
          /\ Len(currentChapter) = 1
          /\ currentChapter[1].list = "structure"
          /\ currentChapter[1].index \in 1..Len(structure)
          /\ structure[currentChapter[1].index].type = "chapter"
          /\ \A i \in (currentChapter[1].index + 1)..Len(structure) :
                structure[i].type # "chapter"
    /\ (currentChapter # null /\ currentSection # null) =>
          /\ Len(NodeAt(structure, currentChapter).sections) > 0
          /\ currentSection =
                currentChapter \o <<At("sections",
                                      Len(NodeAt(structure, currentChapter).sections))>>
    /\ (currentChapter = null /\ currentSection # null) =>
          /\ Len(currentSection) = 1
          /\ currentSection[1].list = "structure"
          /\ currentSection[1].index \in 1..Len(structure)
          /\ structure[currentSection[1].index].type = "section"

\* In the middle of a scan: the second chapter is current and its second
\* section is the current section.
C30_Witness ==
    /\ ~returned
    /\ pos = 4
    /\ Len(blocks) = 4
    /\ currentChapter # null
    /\ currentSection = currentChapter \o <<At("sections", 2)>>

(***************************************************************************)
(* Properties of the editor's block list.                                  *)
(***************************************************************************)
\* C28: the editor's block list holds at least one block after any sequence
\* of addBlock, updateBlock, deleteBlock and load steps, two deleteBlock
\* calls made on the same rendered list included.
C28_NeverEmpty == Len(blocks) >= 1

(***************************************************************************)
(* Properties of the font loader.                                          *)
(***************************************************************************)
\* C29: no attempt reports more than one outcome, and an attempt that has
\* reported the timeout has not applied its font afterwards.
C29_OneOutcome ==
    \A a \in 1..Len(attempts) :
        /\ Len(attempts[a].outcomes) <= 1
        /\ \A i, j \in 1..Len(attempts[a].outcomes) :
              (i < j /\ attempts[a].outcomes[i] = "timeout")
              => attempts[a].outcomes[j] # "applied"

====
